---- MODULE Spec2Model ----
(***************************************************************************)
(* The asynchronous resource system of crayon (src/src/resource/resource.rs)*)
(* as a state machine: the registries (arenas, externs, filesystems), the  *)
(* task channel, the one-shot futures, and the worker thread of            *)
(* ResourceSystem::run, whose Load / ExternLoad tasks are split at the     *)
(* points where the worker holds no registry lock, so that caller threads  *)
(* interleave with it exactly where the code lets them.                    *)
(* The World of the entity component system (src/tests/ecs.rs) is kept in  *)
(* a variable of its own and has a specification of its own, and so is the *)
(* audio module's AudioClipLoader::load (clip_loader.rs), a pure function. *)
(***************************************************************************)
EXTENDS Integers, Sequences, FiniteSets, TLC

\* ------------------------------------------------------------------ bounds
MaxReqs == 2        \* load / load_extern calls in one behaviour
MaxUnloads == 1     \* unload_unused() calls in one behaviour
MaxRegLoads == 1    \* load calls in one behaviour of SpecReg
MaxLiveSends == 2   \* calls that send a task in one behaviour of SpecLive
MaxStream == 2      \* bytes after the header handed to AudioClipLoader::load
MaxTypeLoads == 3   \* load calls in one behaviour of SpecTypes, of SpecDup
MaxIndex == 2       \* entity slots of the World in SpecEcs
MaxVersion == 1     \* times one entity slot is handed out
MaxAdds == 3        \* add calls in one behaviour of SpecEcs

\* ------------------------------------------------------- program constants
QueueCap == 1024    \* two_lock_queue::channel(1024)
MaxQueued == QueueCap + 1    \* unload_unused() calls in one behaviour of SpecQueue

\* ------------------------------------------------------------ the universe
Types == {"T1", "T2"}          \* resource types (TypeId of T::Item)
Systems == {"S1", "S2"}        \* extern system types (TypeId of S)
Paths == {"a", "b"}
Opts == {"o1"}
Sizes == {1, 2}                \* capacities handed to register
SysVals == {1, 2}              \* system values handed to register_extern_system
FsIds == {"res"}
Reqs == 1..(IF MaxReqs > MaxTypeLoads THEN MaxReqs ELSE MaxTypeLoads)

NoReq == [kind |-> "none", ty |-> "-", sys |-> "-", path |-> "-", opts |-> "-",
          seq |-> 0, parent |-> 0, after |-> {}]

\* HashValue<Path>: equal paths give equal keys
HashOf(p) == IF p = "a" THEN 1 ELSE 2
Keys == {HashOf(p) : p \in Paths}

\* The one mountable filesystem holds a well-formed file "a" and a malformed "b".
FileBytes(p) == IF p = "a" THEN <<1>> ELSE <<0>>
\* FilesystemDriver::exists / load_into succeed when a mounted filesystem has the file
Readable(fss, p) == fss # {}
\* T::parse: a pure function of the byte slice it is given
ParseOk(bytes) == bytes = <<1>>

Pending == [st |-> "pending"]
NotCreated == [st |-> "none"]
Ok(v) == [st |-> "ok", val |-> v]
Err(e) == [st |-> "err", err |-> e]

NoArena == [reg |-> FALSE, cap |-> 0, res |-> [k \in Keys |-> 0]]

VARIABLES
    arenas,       \* TypeId -> ArenaWrapper (reg, capacity, key -> Arc instance, 0 = none)
    externs,      \* TypeId -> registered system value, 0 = none
    filesystems,  \* idents mounted in the FilesystemDriver
    queue,        \* the two_lock_queue channel
    alive,        \* the ResourceSystemShared has not been dropped
    futures,      \* request -> state of its oneshot channel
    payload,      \* requests whose closure still holds its payload
    req,          \* request -> what was asked
    locks,        \* run(): the in-flight set
    buf,          \* run(): the read buffer
    wpc,          \* the worker's position
    cur,          \* the request whose closure the worker is running
    from,         \* load(): buf.len() before the read
    rc,           \* load(): the Arc just built or found
    nextInst,     \* the next Arc allocation
    nextSeq,      \* the number of tasks sent so far
    unloads,      \* the number of unload_unused() calls so far
    \* ---- history (observation only)
    nres,         \* request -> number of sends on its oneshot channel
    fsReads,      \* requests for which driver.load_into was called
    parsed,       \* requests for which T::parse was called
    base,         \* request -> outcome of its ResourceSystem::load stage
    externCalls,  \* the calls made to S::load
    fresh,        \* loads resolved with success since the last eviction
    lastDeq,      \* seq of the last task the worker received
    ev,           \* the last step, when it was a load call, a repeated registration,
                  \* an eviction pass, an exists probe or a repeated closure call
    \* ---- the entity component system (ecs::World), apart from the resource system
    world,        \* registered arenas, entity slots, components, and the last call
    \* ---- the audio module (AudioClipLoader), apart from both
    clip          \* the last AudioClipLoader::load call: its input and its outcome

resVars == <<arenas, externs, filesystems, queue, alive, futures, payload, req, locks,
             buf, wpc, cur, from, rc, nextInst, nextSeq, unloads, nres, fsReads, parsed,
             base, externCalls, fresh, lastDeq, ev>>

vars == <<resVars, world, clip>>

\* ecs: the component types of the tests, entity slots and handles
Comps == {"Position", "Reference"}
Indices == 1..MaxIndex
Insts == 1..MaxAdds
NoCall == [op |-> "-", e |-> <<0, 0>>, c |-> "-", val |-> 0, ret |-> 0]

\* World::new()
NewWorld == [reg |-> {},
             live |-> {},
             ver |-> [i \in Indices |-> 0],
             comp |-> [c \in Comps |-> [i \in Indices |-> 0]],
             adds |-> 0,
             drops |-> [v \in Insts |-> 0],
             call |-> NoCall]

\* audio: no AudioClipLoader::load call yet
NoClipCall == [bytes |-> <<>>, header |-> FALSE, stream |-> FALSE, out |-> [st |-> "none"]]

Ev(op, tgt, n, as, es) == [op |-> op, tgt |-> tgt, n |-> n, arenas |-> as, externs |-> es]
Quiet == Ev("-", "-", 0, {}, {})

Init ==
    /\ arenas = [t \in Types |-> NoArena]
    /\ externs = [s \in Systems |-> 0]
    /\ filesystems = {}
    /\ queue = <<>>
    /\ alive = TRUE
    /\ futures = [r \in Reqs |-> NotCreated]
    /\ payload = {}
    /\ req = [r \in Reqs |-> NoReq]
    /\ locks = {}
    /\ buf = <<>>
    /\ wpc = "recv"
    /\ cur = 0
    /\ from = 0
    /\ rc = 0
    /\ nextInst = 1
    /\ nextSeq = 1
    /\ unloads = 0
    /\ nres = [r \in Reqs |-> 0]
    /\ fsReads = {}
    /\ parsed = {}
    /\ base = [r \in Reqs |-> NotCreated]
    /\ externCalls = {}
    /\ fresh = {}
    /\ lastDeq = 0
    /\ ev = Quiet
    /\ world = NewWorld
    /\ clip = NoClipCall

\* --------------------------------------------------------------- helpers
NumReqs == Cardinality({r \in Reqs : req[r].kind # "none"})

\* ArenaWithCache::get(hash): the Arc stored under the key, 0 for None
CacheGet(t, k) == arenas[t].res[k]
\* ArenaWithCache::insert(hash, rc)
CacheInsert(t, k, v) == [arenas EXCEPT ![t].res[k] = v]

Cached(t, k) == arenas[t].reg /\ CacheGet(t, k) # 0

Registered == {t \in Types : arenas[t].reg}
RegisteredExterns == {s \in Systems : externs[s] # 0}

\* Entries whose Arc the worker itself still holds are in use
InUse == IF wpc = "extern" THEN {rc} ELSE {}
Evictable == {e \in Types \X Keys : Cached(e[1], e[2]) /\ CacheGet(e[1], e[2]) \notin InUse}

\* ArenaWrapper::unload_unused on every arena of the map: the entries in gone,
\* which the cache's own policy found unused, are released
UnloadArenas(gone) ==
    [t \in Types |->
        [arenas[t] EXCEPT !.res = [k \in Keys |-> IF <<t, k>> \in gone THEN 0 ELSE @[k]]]]

\* A channel without a capacity: send never blocks
SendTaskUnbounded(kind, r) ==
    /\ queue' = Append(queue, [kind |-> kind, req |-> r, seq |-> nextSeq])
    /\ nextSeq' = nextSeq + 1

\* two_lock_queue::Sender::send: blocks while the queue is full
SendTask(kind, r) ==
    /\ Len(queue) < QueueCap
    /\ queue' = Append(queue, [kind |-> kind, req |-> r, seq |-> nextSeq])
    /\ nextSeq' = nextSeq + 1

\* ------------------------------------------------- ResourceSystem (owner)
\* Register without the contains_key test: a repeated call replaces the arena
RegisterReplaces(t, size) ==
    /\ alive
    /\ arenas' = [arenas EXCEPT ![t] = [reg |-> TRUE, cap |-> size,
                                        res |-> [k \in Keys |-> 0]]]
    /\ ev' = IF arenas[t].reg THEN Ev("register_again", t, size, {}, {}) ELSE Quiet
    /\ UNCHANGED <<world, clip, externs, filesystems, queue, alive, futures, payload, req, locks,
                   buf, wpc, cur, from, rc, nextInst, nextSeq, unloads, nres, fsReads,
                   parsed, base, externCalls, fresh, lastDeq>>

Register(t, size) ==
    /\ alive
    /\ arenas' = IF ~arenas[t].reg
                 THEN [arenas EXCEPT ![t] = [reg |-> TRUE, cap |-> size,
                                             res |-> [k \in Keys |-> 0]]]
                 ELSE arenas
    /\ ev' = IF arenas[t].reg THEN Ev("register_again", t, size, {}, {}) ELSE Quiet
    /\ UNCHANGED <<world, clip, externs, filesystems, queue, alive, futures, payload, req, locks,
                   buf, wpc, cur, from, rc, nextInst, nextSeq, unloads, nres, fsReads,
                   parsed, base, externCalls, fresh, lastDeq>>

RegisterExternSystem(s, system) ==
    /\ alive
    /\ externs' = IF externs[s] = 0 THEN [externs EXCEPT ![s] = system] ELSE externs
    /\ ev' = IF externs[s] # 0 THEN Ev("register_extern_again", s, system, {}, {}) ELSE Quiet
    /\ UNCHANGED <<world, clip, arenas, filesystems, queue, alive, futures, payload, req, locks,
                   buf, wpc, cur, from, rc, nextInst, nextSeq, unloads, nres, fsReads,
                   parsed, base, externCalls, fresh, lastDeq>>

\* The worker holds the driver's read lock for the whole of a Load / ExternLoad task
DriverFree == wpc \in {"recv", "stopped"}

Mount(ident) ==
    /\ alive
    /\ DriverFree
    /\ filesystems' = filesystems \cup {ident}
    /\ ev' = Quiet
    /\ UNCHANGED <<world, clip, arenas, externs, queue, alive, futures, payload, req, locks,
                   buf, wpc, cur, from, rc, nextInst, nextSeq, unloads, nres, fsReads,
                   parsed, base, externCalls, fresh, lastDeq>>

Unmount(ident) ==
    /\ alive
    /\ DriverFree
    /\ filesystems' = filesystems \ {ident}
    /\ ev' = Quiet
    /\ UNCHANGED <<world, clip, arenas, externs, queue, alive, futures, payload, req, locks,
                   buf, wpc, cur, from, rc, nextInst, nextSeq, unloads, nres, fsReads,
                   parsed, base, externCalls, fresh, lastDeq>>

\* advance() without its second block: the extern systems are not visited
AdvanceSkipsExterns(gone, observed) ==
    /\ alive
    /\ gone \subseteq Evictable
    /\ arenas' = UnloadArenas(gone)
    /\ fresh' = {}
    /\ ev' = IF observed THEN Ev("advance", "-", 0, Registered, {}) ELSE Quiet
    /\ UNCHANGED <<world, clip, externs, filesystems, queue, alive, futures, payload, req, locks,
                   buf, wpc, cur, from, rc, nextInst, nextSeq, unloads, nres, fsReads,
                   parsed, base, externCalls, lastDeq>>

\* advance(): unload_unused on every arena, then on every extern system
\* (the pass is recorded in ev only where a specification observes it)
Advance(gone, observed) ==
    /\ alive
    /\ gone \subseteq Evictable
    /\ arenas' = UnloadArenas(gone)
    /\ fresh' = {}
    /\ ev' = IF observed THEN Ev("advance", "-", 0, Registered, RegisteredExterns)
             ELSE Quiet
    /\ UNCHANGED <<world, clip, externs, filesystems, queue, alive, futures, payload, req, locks,
                   buf, wpc, cur, from, rc, nextInst, nextSeq, unloads, nres, fsReads,
                   parsed, base, externCalls, lastDeq>>

\* ------------------------------------------ ResourceSystemShared (handle)
\* load::<T> without the in-memory lookup: every call is sent to the worker
SharedLoadAlwaysSends(r, t, p, parent) ==
    /\ req' = [req EXCEPT ![r] = [kind |-> "load", ty |-> t, sys |-> "-", path |-> p,
                                  opts |-> "-", seq |-> nextSeq, parent |-> parent,
                                  after |-> {q \in fresh : req[q].ty = t /\ req[q].path = p}]]
    /\ futures' = [futures EXCEPT ![r] = Pending]
    /\ payload' = payload \cup {r}
    /\ SendTask("Load", r)
    /\ ev' = Ev(IF Cached(t, HashOf(p)) THEN "load_hit" ELSE "load_miss", t, r, {}, {})
    /\ UNCHANGED <<world, clip, arenas, externs, filesystems, alive, locks, buf, wpc, cur, from,
                   rc, nextInst, unloads, nres, fresh, fsReads, parsed, base,
                   externCalls, lastDeq>>

\* load::<T> doing the worker's part itself: on a miss the calling thread reads the
\* file, parses it and inserts the instance
SharedLoadInline(r, t, p, parent) ==
    LET k == HashOf(p)
        hit == Cached(t, k)
        inline == ~hit /\ arenas[t].reg /\ Readable(filesystems, p) /\ ParseOk(FileBytes(p))
    IN  /\ req' = [req EXCEPT ![r] =
                    [kind |-> "load", ty |-> t, sys |-> "-", path |-> p, opts |-> "-",
                     seq |-> IF hit \/ inline THEN 0 ELSE nextSeq, parent |-> parent,
                     after |-> {q \in fresh : req[q].ty = t /\ req[q].path = p}]]
        /\ IF hit
           THEN /\ futures' = [futures EXCEPT ![r] = Ok(CacheGet(t, k))]
                /\ nres' = [nres EXCEPT ![r] = @ + 1]
                /\ fresh' = fresh \cup {r}
                /\ UNCHANGED <<queue, nextSeq, payload, arenas, nextInst, fsReads, parsed>>
           ELSE IF inline
           THEN /\ fsReads' = fsReads \cup {r}
                /\ parsed' = parsed \cup {r}
                /\ arenas' = CacheInsert(t, k, nextInst)
                /\ nextInst' = nextInst + 1
                /\ futures' = [futures EXCEPT ![r] = Ok(nextInst)]
                /\ nres' = [nres EXCEPT ![r] = @ + 1]
                /\ fresh' = fresh \cup {r}
                /\ UNCHANGED <<queue, nextSeq, payload>>
           ELSE /\ futures' = [futures EXCEPT ![r] = Pending]
                /\ payload' = payload \cup {r}
                /\ SendTask("Load", r)
                /\ UNCHANGED <<nres, fresh, arenas, nextInst, fsReads, parsed>>
        /\ ev' = Ev(IF hit THEN "load_hit" ELSE "load_miss", t, r, {}, {})
        /\ UNCHANGED <<world, clip, externs, filesystems, alive, locks, buf, wpc, cur, from,
                       rc, unloads, base, externCalls, lastDeq>>

\* load::<T>(path), called by a client thread or (nested) by a running parser
SharedLoad(r, t, p, parent) ==
    LET k == HashOf(p)
        hit == Cached(t, k)
        asked == [kind |-> "load", ty |-> t, sys |-> "-", path |-> p, opts |-> "-",
                  seq |-> IF hit THEN 0 ELSE nextSeq, parent |-> parent,
                  after |-> {q \in fresh : req[q].ty = t /\ req[q].path = p}]
    IN  /\ req' = [req EXCEPT ![r] = asked]
        /\ IF hit
           THEN /\ futures' = [futures EXCEPT ![r] = Ok(CacheGet(t, k))]
                /\ nres' = [nres EXCEPT ![r] = @ + 1]
                /\ fresh' = fresh \cup {r}
                /\ UNCHANGED <<queue, nextSeq, payload>>
           ELSE /\ futures' = [futures EXCEPT ![r] = Pending]
                /\ payload' = payload \cup {r}
                /\ SendTask("Load", r)
                /\ UNCHANGED <<nres, fresh>>
        /\ ev' = Ev(IF hit THEN "load_hit" ELSE "load_miss", t, r, {}, {})
        /\ UNCHANGED <<world, clip, arenas, externs, filesystems, alive, locks, buf, wpc, cur, from,
                       rc, nextInst, unloads, fsReads, parsed, base, externCalls, lastDeq>>

Load(t, p) ==
    /\ alive
    /\ NumReqs < MaxReqs
    /\ SharedLoad(NumReqs + 1, t, p, 0)

\* T::parse, running on the worker for request cur, calls load::<T> for the very
\* path it is parsing, through a handle it holds, and does not wait for the result
NestedLoad ==
    /\ alive
    /\ wpc = "parse"
    /\ NumReqs < MaxReqs
    /\ SharedLoad(NumReqs + 1, req[cur].ty, req[cur].path, cur)

SharedLoadExtern(r, t, s, p, o) ==
    /\ req' = [req EXCEPT ![r] = [kind |-> "extern", ty |-> t, sys |-> s, path |-> p,
                                  opts |-> o, seq |-> nextSeq, parent |-> 0,
                                  after |-> {}]]
    /\ futures' = [futures EXCEPT ![r] = Pending]
    /\ payload' = payload \cup {r}
    /\ SendTask("ExternLoad", r)
    /\ ev' = Quiet
    /\ UNCHANGED <<world, clip, arenas, externs, filesystems, alive, locks, buf, wpc, cur, from,
                   rc, nextInst, unloads, nres, fsReads, parsed, base, externCalls,
                   fresh, lastDeq>>

LoadExtern(t, s, p, o) ==
    /\ alive
    /\ NumReqs < MaxReqs
    /\ SharedLoadExtern(NumReqs + 1, t, s, p, o)

\* exists(path): the caller probes the driver under its read lock; nothing is sent
\* (the probe is recorded in ev only where a specification observes it)
Exists(p, observed) ==
    /\ alive
    /\ ev' = IF observed THEN Ev("exists", "-", 0, {}, {}) ELSE Quiet
    /\ UNCHANGED <<world, clip, arenas, externs, filesystems, queue, alive, futures, payload, req,
                   locks, buf, wpc, cur, from, rc, nextInst, nextSeq, unloads, nres,
                   fsReads, parsed, base, externCalls, fresh, lastDeq>>

\* unload_unused(): the send, nothing else
SharedUnloadUnused ==
    /\ alive
    /\ unloads' = unloads + 1
    /\ SendTask("UnloadUnused", 0)
    /\ ev' = Quiet
    /\ UNCHANGED <<world, clip, arenas, externs, filesystems, alive, futures, payload, req, locks,
                   buf, wpc, cur, from, rc, nextInst, nres, fsReads, parsed, base,
                   externCalls, fresh, lastDeq>>

UnloadUnused ==
    /\ unloads < MaxUnloads
    /\ SharedUnloadUnused

\* Drop that flushes the channel: Stop is the one task the worker will find
DropSharedFlushes ==
    /\ alive
    /\ alive' = FALSE
    /\ Len(queue) < QueueCap
    /\ queue' = <<[kind |-> "Stop", req |-> 0, seq |-> nextSeq]>>
    /\ nextSeq' = nextSeq + 1
    /\ ev' = Quiet
    /\ UNCHANGED <<world, clip, arenas, externs, filesystems, futures, payload, req, locks,
                   buf, wpc, cur, from, rc, nextInst, unloads, nres, fsReads, parsed,
                   base, externCalls, fresh, lastDeq>>

\* Drop for ResourceSystemShared: runs when the last Arc to it goes away, so no
\* operation of the owner or of the handle can follow it
DropShared ==
    /\ alive
    /\ alive' = FALSE
    /\ SendTask("Stop", 0)
    /\ ev' = Quiet
    /\ UNCHANGED <<world, clip, arenas, externs, filesystems, futures, payload, req, locks,
                   buf, wpc, cur, from, rc, nextInst, unloads, nres, fsReads, parsed,
                   base, externCalls, fresh, lastDeq>>

\* ------------------------------------------------- the worker thread: run
\* data.1.send(v): the closure sends the result on the request's oneshot channel
Resolve(r, v) ==
    /\ futures' = [futures EXCEPT ![r] = v]
    /\ nres' = [nres EXCEPT ![r] = @ + 1]

\* the closure returns, the driver's read guard is dropped, run loops to recv
Return ==
    /\ wpc' = "recv"
    /\ cur' = 0
    /\ from' = 0
    /\ rc' = 0

\* The ExternLoad closure without and_then: S::load is called whatever the base
\* stage returned
BaseDoneAlwaysChains(r, v) ==
    /\ base' = [base EXCEPT ![r] = v]
    /\ IF req[r].kind = "extern"
       THEN /\ wpc' = "extern"
            /\ rc' = IF v.st = "ok" THEN v.val ELSE 0
            /\ UNCHANGED <<futures, nres, cur, from, fresh>>
       ELSE /\ Resolve(r, v)
            /\ Return
            /\ fresh' = IF v.st = "ok" THEN fresh \cup {r} ELSE fresh

\* The ExternLoad closure sending the base result before it goes on to S::load
BaseDoneSendsBase(r, v) ==
    /\ base' = [base EXCEPT ![r] = v]
    /\ Resolve(r, v)
    /\ IF req[r].kind = "extern" /\ v.st = "ok"
       THEN /\ wpc' = "extern"
            /\ rc' = v.val
            /\ UNCHANGED <<cur, from, fresh>>
       ELSE /\ Return
            /\ fresh' = IF v.st = "ok" THEN fresh \cup {r} ELSE fresh

\* ResourceSystem::load::<T> returns v to the closure of request r: a Load closure
\* sends it; an ExternLoad closure goes on to S::load only with a success (and_then)
BaseDone(r, v) ==
    /\ base' = [base EXCEPT ![r] = v]
    /\ IF req[r].kind = "extern" /\ v.st = "ok"
       THEN /\ wpc' = "extern"
            /\ rc' = v.val
            /\ UNCHANGED <<futures, nres, cur, from, fresh>>
       ELSE /\ Resolve(r, v)
            /\ Return
            /\ fresh' = IF v.st = "ok" THEN fresh \cup {r} ELSE fresh

\* A channel that hands out the newest task first
ReceivedLast == queue[Len(queue)]

\* chan.recv(): the task at the head of the queue, and what stays queued
Received == Head(queue)
Remaining == Tail(queue)

\* The closure without the payload guard: its body runs on every call
CallClosureUnguarded(r) ==
    /\ payload' = payload \ {r}
    /\ wpc' = "lookup"
    /\ cur' = r

\* closure(..) of request r: if let Some(data) = payload.write().unwrap().take()
\* starts the body; without a payload the call does nothing
CallClosure(r) ==
    IF r \in payload
    THEN /\ payload' = payload \ {r}
         /\ wpc' = "lookup"
         /\ cur' = r
    ELSE UNCHANGED <<payload, wpc, cur>>

\* recv of a Load or ExternLoad task: take the read lock and call the closure
WorkerRecvLoad ==
    /\ wpc = "recv"
    /\ queue # <<>>
    /\ Received.kind \in {"Load", "ExternLoad"}
    /\ queue' = Remaining
    /\ lastDeq' = Received.seq
    /\ CallClosure(Received.req)
    /\ ev' = Quiet
    /\ UNCHANGED <<world, clip, arenas, externs, filesystems, alive, futures, req, locks, buf,
                   from, rc, nextInst, nextSeq, unloads, nres, fsReads, parsed, base,
                   externCalls, fresh>>

\* The closure of a task that run has already received, called once more (it is
\* an FnMut: whoever holds it can call it again); run itself calls it once
WorkerCallAgain(r) ==
    /\ wpc = "recv"
    /\ req[r].seq # 0
    /\ req[r].seq <= lastDeq
    /\ CallClosure(r)
    /\ ev' = Ev("call_again", "-", r, {}, {})
    /\ UNCHANGED <<world, clip, arenas, externs, filesystems, queue, alive, futures, req, locks, buf,
                   from, rc, nextInst, nextSeq, unloads, nres, fsReads, parsed, base,
                   externCalls, fresh, lastDeq>>

\* recv of UnloadUnused: unload_unused on every arena
WorkerRecvUnload(gone) ==
    /\ wpc = "recv"
    /\ queue # <<>>
    /\ Received.kind = "UnloadUnused"
    /\ gone \subseteq Evictable
    /\ queue' = Remaining
    /\ lastDeq' = Received.seq
    /\ arenas' = UnloadArenas(gone)
    /\ fresh' = {}
    /\ ev' = Ev("evict", "-", 0, Registered, {})
    /\ UNCHANGED <<world, clip, externs, filesystems, alive, futures, payload, req, locks, buf,
                   wpc, cur, from, rc, nextInst, nextSeq, unloads, nres, fsReads,
                   parsed, base, externCalls>>

\* run with a Stop arm that does not return: the loop goes on to the next recv
WorkerRecvStopGoesOn ==
    /\ wpc = "recv"
    /\ queue # <<>>
    /\ Received.kind = "Stop"
    /\ queue' = Remaining
    /\ lastDeq' = Received.seq
    /\ ev' = Quiet
    /\ UNCHANGED <<world, clip, arenas, externs, filesystems, alive, futures, payload, req, locks,
                   buf, wpc, cur, from, rc, nextInst, nextSeq, unloads, nres, fsReads,
                   parsed, base, externCalls, fresh>>

\* run returning as soon as a Stop is in the queue, whatever is queued before it
WorkerRecvStopEarly ==
    /\ wpc = "recv"
    /\ \E i \in 1..Len(queue) : queue[i].kind = "Stop"
    /\ queue' = <<>>
    /\ lastDeq' = queue[Len(queue)].seq
    /\ wpc' = "stopped"
    /\ ev' = Quiet
    /\ UNCHANGED <<world, clip, arenas, externs, filesystems, alive, futures, payload, req, locks,
                   buf, cur, from, rc, nextInst, nextSeq, unloads, nres, fsReads,
                   parsed, base, externCalls, fresh>>

\* recv of Stop: run returns
WorkerRecvStop ==
    /\ wpc = "recv"
    /\ queue # <<>>
    /\ Received.kind = "Stop"
    /\ queue' = Remaining
    /\ lastDeq' = Received.seq
    /\ wpc' = "stopped"
    /\ ev' = Quiet
    /\ UNCHANGED <<world, clip, arenas, externs, filesystems, alive, futures, payload, req, locks,
                   buf, cur, from, rc, nextInst, nextSeq, unloads, nres, fsReads,
                   parsed, base, externCalls, fresh>>

\* load::<T> without the registry test of its first block: an unregistered type
\* is found out only at the insert, after the read and the parse
WorkerLookupSkipsRegistry ==
    LET r == cur
        t == req[r].ty
        k == HashOf(req[r].path)
    IN  /\ wpc = "lookup"
        /\ IF CacheGet(t, k) # 0
           THEN BaseDone(r, Ok(CacheGet(t, k))) /\ UNCHANGED locks
           ELSE IF k \in locks
           THEN BaseDone(r, Err("CircularReferenceFound")) /\ UNCHANGED locks
           ELSE /\ locks' = locks \cup {k}
                /\ from' = Len(buf)
                /\ wpc' = "read"
                /\ UNCHANGED <<futures, nres, cur, rc, fresh, base>>
        /\ ev' = Quiet
        /\ UNCHANGED <<world, clip, arenas, externs, filesystems, queue, alive, payload, req, buf,
                       nextInst, nextSeq, unloads, fsReads, parsed, externCalls, lastDeq>>

\* load::<T> without the cache lookup of its first block: every task that finds
\* its type registered and its key not in flight reads and parses
WorkerLookupSkipsCache ==
    LET r == cur
        t == req[r].ty
        k == HashOf(req[r].path)
    IN  /\ wpc = "lookup"
        /\ IF ~arenas[t].reg
           THEN BaseDone(r, Err("NotRegistered")) /\ UNCHANGED locks
           ELSE IF k \in locks
           THEN BaseDone(r, Err("CircularReferenceFound")) /\ UNCHANGED locks
           ELSE /\ locks' = locks \cup {k}
                /\ from' = Len(buf)
                /\ wpc' = "read"
                /\ UNCHANGED <<futures, nres, cur, rc, fresh, base>>
        /\ ev' = Quiet
        /\ UNCHANGED <<world, clip, arenas, externs, filesystems, queue, alive, payload, req, buf,
                       nextInst, nextSeq, unloads, fsReads, parsed, externCalls, lastDeq>>

\* load::<T>, first block and the in-flight check, up to let from = buf.len()
WorkerLookup ==
    LET r == cur
        t == req[r].ty
        k == HashOf(req[r].path)
    IN  /\ wpc = "lookup"
        /\ IF ~arenas[t].reg
           THEN BaseDone(r, Err("NotRegistered")) /\ UNCHANGED locks
           ELSE IF CacheGet(t, k) # 0
           THEN BaseDone(r, Ok(CacheGet(t, k))) /\ UNCHANGED locks
           ELSE IF k \in locks
           THEN BaseDone(r, Err("CircularReferenceFound")) /\ UNCHANGED locks
           ELSE /\ locks' = locks \cup {k}
                /\ from' = Len(buf)
                /\ wpc' = "read"
                /\ UNCHANGED <<futures, nres, cur, rc, fresh, base>>
        /\ ev' = Quiet
        /\ UNCHANGED <<world, clip, arenas, externs, filesystems, queue, alive, payload, req, buf,
                       nextInst, nextSeq, unloads, fsReads, parsed, externCalls, lastDeq>>

\* driver.load_into(&path, buf)?
WorkerRead ==
    LET r == cur
        p == req[r].path
    IN  /\ wpc = "read"
        /\ fsReads' = fsReads \cup {r}
        /\ IF Readable(filesystems, p)
           THEN /\ buf' = buf \o FileBytes(p)
                /\ wpc' = "parse"
                /\ UNCHANGED <<futures, nres, cur, from, rc, fresh, base>>
           ELSE /\ BaseDone(r, Err("NotFound"))
                /\ UNCHANGED buf
        /\ ev' = Quiet
        /\ UNCHANGED <<world, clip, arenas, externs, filesystems, queue, alive, payload, req, locks,
                       nextInst, nextSeq, unloads, parsed, externCalls,
                       lastDeq>>

\* load::<T> inserting into the arena before it knows the parse result: a
\* failed parse leaves an entry behind
WorkerParseCachesFirst ==
    LET r == cur
        t == req[r].ty
        k == HashOf(req[r].path)
    IN  /\ wpc = "parse"
        /\ parsed' = parsed \cup {r}
        /\ nextInst' = nextInst + 1
        /\ arenas' = CacheInsert(t, k, nextInst)
        /\ IF ParseOk(SubSeq(buf, from + 1, Len(buf)))
           THEN /\ locks' = locks \ {k}
                /\ rc' = nextInst
                /\ wpc' = "insert"
                /\ UNCHANGED <<futures, nres, cur, from, fresh, base>>
           ELSE /\ BaseDone(r, Err("ParseFailure"))
                /\ UNCHANGED locks
        /\ ev' = Quiet
        /\ UNCHANGED <<world, clip, externs, filesystems, queue, alive, payload, req, buf,
                       nextSeq, unloads, fsReads, externCalls, lastDeq>>

\* load::<T> handing the parser the whole buffer, T::parse(&buf[..])
WorkerParseWholeBuffer ==
    LET r == cur
        k == HashOf(req[r].path)
    IN  /\ wpc = "parse"
        /\ parsed' = parsed \cup {r}
        /\ IF ParseOk(buf)
           THEN /\ locks' = locks \ {k}
                /\ rc' = nextInst
                /\ nextInst' = nextInst + 1
                /\ wpc' = "insert"
                /\ UNCHANGED <<futures, nres, cur, from, fresh, base>>
           ELSE /\ BaseDone(r, Err("ParseFailure"))
                /\ UNCHANGED <<locks, nextInst>>
        /\ ev' = Quiet
        /\ UNCHANGED <<world, clip, arenas, externs, filesystems, queue, alive, payload, req, buf,
                       nextSeq, unloads, fsReads, externCalls, lastDeq>>

\* T::parse(&buf[from..])?; locks.remove(&hash); Arc::new(resource)
WorkerParse ==
    LET r == cur
        k == HashOf(req[r].path)
    IN  /\ wpc = "parse"
        /\ parsed' = parsed \cup {r}
        /\ IF ParseOk(SubSeq(buf, from + 1, Len(buf)))
           THEN /\ locks' = locks \ {k}
                /\ rc' = nextInst
                /\ nextInst' = nextInst + 1
                /\ wpc' = "insert"
                /\ UNCHANGED <<futures, nres, cur, from, fresh, base>>
           ELSE /\ BaseDone(r, Err("ParseFailure"))
                /\ UNCHANGED <<locks, nextInst>>
        /\ ev' = Quiet
        /\ UNCHANGED <<world, clip, arenas, externs, filesystems, queue, alive, payload, req, buf,
                       nextSeq, unloads, fsReads, externCalls, lastDeq>>

\* load::<T> returning the new Arc without inserting it into the arena
WorkerInsertForgets ==
    /\ wpc = "insert"
    /\ BaseDone(cur, Ok(rc))
    /\ ev' = Quiet
    /\ UNCHANGED <<world, clip, arenas, externs, filesystems, queue, alive, payload, req, locks, buf,
                   nextInst, nextSeq, unloads, fsReads, parsed, externCalls, lastDeq>>

\* load::<T>, last block: insert(hash, rc.clone()); Ok(rc)
WorkerInsert ==
    LET r == cur
        t == req[r].ty
        k == HashOf(req[r].path)
    IN  /\ wpc = "insert"
        /\ IF ~arenas[t].reg
           THEN BaseDone(r, Err("NotRegistered")) /\ UNCHANGED arenas
           ELSE /\ arenas' = CacheInsert(t, k, rc)
                /\ BaseDone(r, Ok(rc))
        /\ ev' = Quiet
        /\ UNCHANGED <<world, clip, externs, filesystems, queue, alive, payload, req, locks, buf,
                       nextInst, nextSeq, unloads, fsReads, parsed, externCalls, lastDeq>>

\* An S stage that takes the base instance out of T's arena again when it fails
WorkerExternDropsBase(succeeds) ==
    LET r == cur
        s == req[r].sys
        failed == externs[s] = 0 \/ ~succeeds
        call == [req |-> r, sys |-> s, val |-> externs[s], path |-> req[r].path,
                 src |-> rc, opts |-> req[r].opts]
    IN  /\ wpc = "extern"
        /\ IF externs[s] = 0
           THEN /\ Resolve(r, Err("NotRegistered"))
                /\ UNCHANGED externCalls
           ELSE /\ externCalls' = externCalls \cup {call}
                /\ Resolve(r, IF succeeds THEN Ok(call) ELSE Err("ExternFailure"))
        /\ arenas' = IF failed THEN CacheInsert(req[r].ty, HashOf(req[r].path), 0)
                     ELSE arenas
        /\ Return
        /\ ev' = Quiet
        /\ UNCHANGED <<world, clip, externs, filesystems, queue, alive, payload, req, locks,
                       buf, nextInst, nextSeq, unloads, fsReads, parsed, base, fresh, lastDeq>>

\* ResourceSystem::load_extern::<S>(e, &path, &src, options), then the send
WorkerExtern(succeeds) ==
    LET r == cur
        s == req[r].sys
        call == [req |-> r, sys |-> s, val |-> externs[s], path |-> req[r].path,
                 src |-> rc, opts |-> req[r].opts]
    IN  /\ wpc = "extern"
        /\ IF externs[s] = 0
           THEN /\ Resolve(r, Err("NotRegistered"))
                /\ UNCHANGED externCalls
           ELSE /\ externCalls' = externCalls \cup {call}
                /\ Resolve(r, IF succeeds THEN Ok(call) ELSE Err("ExternFailure"))
        /\ Return
        /\ ev' = Quiet
        /\ UNCHANGED <<world, clip, arenas, externs, filesystems, queue, alive, payload, req, locks,
                       buf, nextInst, nextSeq, unloads, fsReads, parsed, base, fresh, lastDeq>>

\* ------------------------------------------------------- ecs::World
\* an Entity is a handle: the index of its slot and the slot's version
Handles == Indices \X (1..MaxVersion)

\* World::is_alive(e), World::get::<C>(e) (0 for None) on the world w
AliveIn(w, e) == e[1] \in w.live /\ w.ver[e[1]] = e[2]
GetIn(w, c, e) == IF AliveIn(w, e) THEN w.comp[c][e[1]] ELSE 0

\* World::is_alive(e)
IsAlive(e) == AliveIn(world, e)
\* World::get::<C>(e): the component stored for e, 0 for None
Get(c, e) == GetIn(world, c, e)
\* World::has::<C>(e)
Has(c, e) == Get(c, e) # 0

\* World::register::<C>()
WorldRegister(c) ==
    /\ c \notin world.reg
    /\ world' = [world EXCEPT !.reg = @ \cup {c}, !.call = NoCall]
    /\ UNCHANGED <<resVars, clip>>

\* World::create(): a free slot is handed out under its next version
WorldCreate ==
    \E i \in Indices \ world.live :
        /\ world.ver[i] < MaxVersion
        /\ world' = [world EXCEPT !.live = @ \cup {i}, !.ver[i] = @ + 1,
                                  !.call = NoCall]
        /\ UNCHANGED <<resVars, clip>>

\* add that keeps what the entity already has and returns None
WorldAddKeepsFirst(c, e) ==
    /\ c \in world.reg
    /\ IsAlive(e)
    /\ world.adds < MaxAdds
    /\ world' = [world EXCEPT
            !.adds = @ + 1,
            !.comp[c][e[1]] = IF @ = 0 THEN world.adds + 1 ELSE @,
            !.call = [op |-> "add", e |-> e, c |-> c, val |-> world.adds + 1,
                      ret |-> 0]]
    /\ UNCHANGED <<resVars, clip>>

\* World::add::<C>(e, value): stores the value, returns what it replaces
\* (an unregistered C panics)
WorldAdd(c, e) ==
    /\ c \in world.reg
    /\ IsAlive(e)
    /\ world.adds < MaxAdds
    /\ world' = [world EXCEPT
            !.adds = @ + 1,
            !.comp[c][e[1]] = world.adds + 1,
            !.call = [op |-> "add", e |-> e, c |-> c, val |-> world.adds + 1,
                      ret |-> world.comp[c][e[1]]]]
    /\ UNCHANGED <<resVars, clip>>

\* World::remove::<C>(e)
WorldRemove(c, e) ==
    /\ c \in world.reg
    /\ Has(c, e)
    /\ world' = [world EXCEPT
            !.comp[c][e[1]] = 0,
            !.call = [op |-> "remove", e |-> e, c |-> c, val |-> 0, ret |-> 0]]
    /\ UNCHANGED <<resVars, clip>>

\* free that gives the slot back and leaves the arenas alone
WorldFreeKeepsComponents(e) ==
    /\ IsAlive(e)
    /\ world' = [world EXCEPT
            !.live = @ \ {e[1]},
            !.call = [op |-> "free", e |-> e, c |-> "-", val |-> 0, ret |-> 0]]
    /\ UNCHANGED <<resVars, clip>>

\* World::free(e): the components of e are removed from their arenas and dropped
WorldFree(e) ==
    /\ IsAlive(e)
    /\ world' = [world EXCEPT
            !.live = @ \ {e[1]},
            !.comp = [c \in Comps |-> [@[c] EXCEPT ![e[1]] = 0]],
            !.drops = [v \in Insts |->
                        IF \E c \in Comps : world.comp[c][e[1]] = v THEN @[v] + 1 ELSE @[v]],
            !.call = [op |-> "free", e |-> e, c |-> "-", val |-> 0, ret |-> 0]]
    /\ UNCHANGED <<resVars, clip>>

\* ------------------------------------------------------------ specification
\* Spec: the load protocol in full (every operation of the owner, the handle and
\* the worker) over one resource type and one extern system, each registered once.
Next ==
    \/ ~arenas["T1"].reg /\ Register("T1", 1)
    \/ externs["S1"] = 0 /\ RegisterExternSystem("S1", 1)
    \/ \E i \in FsIds : Mount(i)
    \/ \E i \in FsIds : Unmount(i)
    \/ \E gone \in SUBSET Evictable : Advance(gone, FALSE)
    \/ \E p \in Paths : Load("T1", p)
    \/ NestedLoad
    \/ \E p \in Paths, o \in Opts : LoadExtern("T1", "S1", p, o)
    \/ \E p \in Paths : Exists(p, FALSE)
    \/ UnloadUnused
    \/ DropShared
    \/ WorkerRecvLoad
    \/ \E gone \in SUBSET Evictable : WorkerRecvUnload(gone)
    \/ WorkerRecvStop
    \/ WorkerLookup
    \/ WorkerRead
    \/ WorkerParse
    \/ WorkerInsert
    \/ \E ok \in BOOLEAN : WorkerExtern(ok)

Spec == Init /\ [][Next]_vars

\* SpecReg: the registries in full (both types and both systems, registered any
\* number of times, T1 and S1 with either capacity or system value; both eviction
\* passes) with at most MaxRegLoads loads of the well-formed file.
NextReg ==
    \/ \E n \in Sizes : Register("T1", n)
    \/ Register("T2", 1)
    \/ \E v \in SysVals : RegisterExternSystem("S1", v)
    \/ RegisterExternSystem("S2", 1)
    \/ \E i \in FsIds : Mount(i)
    \/ \E gone \in SUBSET Evictable : Advance(gone, TRUE)
    \/ \E t \in Types : NumReqs < MaxRegLoads /\ Load(t, "a")
    \/ Exists("a", TRUE)
    \/ UnloadUnused
    \/ WorkerRecvLoad
    \/ \E gone \in SUBSET Evictable : WorkerRecvUnload(gone)
    \/ WorkerLookup
    \/ WorkerRead
    \/ WorkerParse
    \/ WorkerInsert

SpecReg == Init /\ [][NextReg]_vars

\* SpecTypes: two resource types loaded from the same path: both types registered
\* once, the filesystem mounted and unmounted, at most MaxTypeLoads loads of "a".
NextTypes ==
    \/ \E t \in Types : ~arenas[t].reg /\ Register(t, 1)
    \/ \E i \in FsIds : Mount(i)
    \/ \E i \in FsIds : Unmount(i)
    \/ \E t \in Types :
         alive /\ NumReqs < MaxTypeLoads /\ SharedLoad(NumReqs + 1, t, "a", 0)
    \/ WorkerRecvLoad
    \/ WorkerLookup
    \/ WorkerRead
    \/ WorkerParse
    \/ WorkerInsert

SpecTypes == Init /\ [][NextTypes]_vars

\* SpecClosure: the task closures called more than once: loads and extern loads
\* of one registered type, run as in Spec, and any closure that has run called again.
NextClosure ==
    \/ ~arenas["T1"].reg /\ Register("T1", 1)
    \/ externs["S1"] = 0 /\ RegisterExternSystem("S1", 1)
    \/ \E i \in FsIds : Mount(i)
    \/ \E p \in Paths : Load("T1", p)
    \/ \E p \in Paths, o \in Opts : LoadExtern("T1", "S1", p, o)
    \/ WorkerRecvLoad
    \/ \E r \in Reqs : WorkerCallAgain(r)
    \/ WorkerLookup
    \/ WorkerRead
    \/ WorkerParse
    \/ WorkerInsert
    \/ \E ok \in BOOLEAN : WorkerExtern(ok)

SpecClosure == Init /\ [][NextClosure]_vars

\* SpecQueue: the channel filled to its capacity: unload_unused() calls from any
\* number of threads, up to MaxQueued in all, the teardown, and the worker.
NextQueue ==
    \/ unloads < MaxQueued /\ SharedUnloadUnused
    \/ unloads = MaxQueued /\ DropShared
    \/ \E gone \in SUBSET Evictable : WorkerRecvUnload(gone)
    \/ WorkerRecvStop

SpecQueue == Init /\ [][NextQueue]_vars

\* SpecEcs: a World on its own: both component types, MaxIndex entity slots each
\* handed out up to MaxVersion times, at most MaxAdds add calls.
NextEcs ==
    \/ \E c \in Comps : WorldRegister(c)
    \/ WorldCreate
    \/ \E c \in Comps, e \in Handles : WorldAdd(c, e)
    \/ \E c \in Comps, e \in Handles : WorldRemove(c, e)
    \/ \E e \in Handles : WorldFree(e)

SpecEcs == Init /\ [][NextEcs]_vars

\* ------------------------------------------------------------------ claims
Resolved(r) == futures[r].st \in {"ok", "err"}

\* C1 (cache coherence): a load::<T>(P) issued after a load::<T>(P) resolved with
\* success, with no eviction pass in between, is resolved with the same instance
\* at once, is never sent to the worker, and causes no read and no parse.
C1_CacheCoherence ==
    \A r \in Reqs : \A q \in req[r].after :
        /\ futures[q].st = "ok"
        /\ futures[r] = futures[q]
        /\ req[r].seq = 0
        /\ r \notin fsReads
        /\ r \notin parsed

\* a hit on an entry that a read and a parse produced, the filesystem unmounted since
C1_Witness ==
    /\ ev.op = "load_hit"
    /\ \E q \in req[ev.n].after : q \in parsed
    /\ filesystems = {}

\* C2 (retry after failure), as claimed: the in-flight set is empty whenever the
\* worker waits for its next task, and no load that is not nested in a parse is
\* rejected with CircularReferenceFound.
C2_RetryAfterFailure ==
    /\ wpc = "recv" => locks = {}
    /\ \A r \in Reqs :
        req[r].kind = "load" /\ req[r].parent = 0
            => futures[r] # Err("CircularReferenceFound")

\* C3 (circular detection), as claimed: a load::<T>(P) issued by T's parser while it
\* parses P is resolved, when it is resolved, with CircularReferenceFound.
C3_NestedIsCircular ==
    \A r \in Reqs :
        /\ req[r].parent # 0
        /\ req[r].ty = req[req[r].parent].ty
        /\ req[r].path = req[req[r].parent].path
        /\ Resolved(r)
        => futures[r] = Err("CircularReferenceFound")

\* C4 (extern chaining): S::load is called only for a request whose base stage
\* succeeded, with that base value, the request's path and options; a request whose
\* base stage failed is resolved with the base stage's error and has no S::load call.
C4_ExternChaining ==
    /\ \A c \in externCalls :
        /\ req[c.req].kind = "extern"
        /\ base[c.req].st = "ok"
        /\ c.src = base[c.req].val
        /\ c.sys = req[c.req].sys
        /\ c.path = req[c.req].path
        /\ c.opts = req[c.req].opts
    /\ \A r \in Reqs :
        req[r].kind = "extern" /\ base[r].st = "err"
            => /\ futures[r] = base[r]
               /\ nres[r] = 1
               /\ \A c \in externCalls : c.req # r

\* a load_extern whose parse failed, after another one reached S::load
C4_Witness ==
    \E r \in Reqs :
        /\ req[r].kind = "extern"
        /\ base[r] = Err("ParseFailure")
        /\ futures[r] = Err("ParseFailure")
        /\ \E c \in externCalls : c.req # r

\* C5 (FIFO ordering): the worker receives the tasks in the order they were sent;
\* and when it runs an UnloadUnused task, every Load / ExternLoad task sent before
\* it has already run to its end: its future is resolved and, if it is a load
\* resolved with success since the last eviction pass, its instance is in the arena.
C5_FifoOrdering ==
    /\ [](\A i \in 1..Len(queue) : queue[i].seq = lastDeq + i)
    /\ [][ev'.op = "evict" =>
            \A r \in Reqs :
                req[r].seq # 0 /\ req[r].seq < lastDeq'
                    => /\ Resolved(r)
                       /\ r \notin payload
                       /\ r \in fresh =>
                            /\ Cached(req[r].ty, HashOf(req[r].path))
                            /\ Ok(CacheGet(req[r].ty, HashOf(req[r].path))) = futures[r]
          ]_vars

\* an eviction task that ran after two loads sent before it, one of them read and
\* parsed with success
C5_Witness ==
    /\ ev.op = "evict"
    /\ Cardinality({r \in Reqs : req[r].seq # 0 /\ req[r].seq < lastDeq /\ Resolved(r)}) >= 2
    /\ \E r \in parsed : req[r].seq < lastDeq /\ futures[r].st = "ok"

\* C6 (evict execution), as claimed: the worker's UnloadUnused task invokes
\* unload_unused on every registered arena and on every registered extern system.
C6_EvictTaskCoversExterns ==
    ev.op = "evict" => ev.arenas = Registered /\ ev.externs = RegisteredExterns

\* C7 (idempotent registration): a register / register_extern_system call for a
\* type that is already registered changes neither registry, and a registered
\* arena or system is never replaced: its capacity, its system value stay.
C7_IdempotentRegistration ==
    [][ /\ ev'.op \in {"register_again", "register_extern_again"}
            => arenas' = arenas /\ externs' = externs
        /\ \A t \in Types : arenas[t].reg => arenas'[t].reg /\ arenas'[t].cap = arenas[t].cap
        /\ \A s \in Systems : externs[s] # 0 => externs'[s] = externs[s]
      ]_vars

\* register::<T>(n) on a registered T that holds a cached entry, n not its capacity
C7_Witness ==
    /\ ev.op = "register_again"
    /\ ev.n # arenas[ev.tgt].cap
    /\ \E k \in Keys : arenas[ev.tgt].res[k] # 0

\* C8, first half (lemma): once Stop has been received, every load sent before it
\* has been resolved by the worker.
C8_LoadsBeforeStopResolve ==
    wpc = "stopped" => \A r \in Reqs : req[r].kind # "none" => Resolved(r) /\ nres[r] = 1

\* C9 (exactly-once resolution): a future is sent to at most once, it is resolved
\* exactly when it was sent to, a failed base stage of a request is what that
\* request's future holds, and a resolved future never changes.
C9_ResolvedOnce ==
    /\ [](\A r \in Reqs :
            /\ nres[r] <= 1
            /\ Resolved(r) <=> nres[r] = 1
            /\ req[r].kind = "none" => futures[r] = NotCreated
            /\ base[r].st = "err" => futures[r] = base[r]
            /\ req[r].kind = "load" /\ base[r].st = "ok" => futures[r] = base[r])
    /\ [][\A r \in Reqs : Resolved(r) => futures'[r] = futures[r] /\ nres'[r] = nres[r]]_vars

\* both kinds of request resolved by the worker, one with an error
C9_Witness ==
    \E r, q \in Reqs :
        /\ req[r].kind = "extern" /\ futures[r].st = "ok" /\ nres[r] = 1
        /\ req[q].kind = "load" /\ futures[q].st = "err" /\ nres[q] = 1

\* C10 (fast path versus enqueue): a load call on a cached key resolves its future
\* at once and leaves the queue alone; on any other key it appends exactly one Load
\* task and leaves the future pending; either way the in-flight set, the buffer,
\* the arenas and the read / parse records are untouched.
C10_FastPathOrEnqueue ==
    [][\A r \in Reqs :
        req[r].kind = "none" /\ req'[r].kind = "load" =>
            LET t == req'[r].ty
                k == HashOf(req'[r].path)
            IN  /\ locks' = locks /\ buf' = buf /\ arenas' = arenas
                /\ fsReads' = fsReads /\ parsed' = parsed
                /\ IF Cached(t, k)
                   THEN /\ futures'[r] = Ok(arenas[t].res[k])
                        /\ queue' = queue
                   ELSE /\ futures'[r] = Pending
                        /\ Len(queue') = Len(queue) + 1
                        /\ SubSeq(queue', 1, Len(queue)) = queue
                        /\ queue'[Len(queue')].kind = "Load"
                        /\ queue'[Len(queue')].req = r
      ]_vars

\* a load answered from the arena while another task waits in the queue
C10_Witness ==
    /\ ev.op = "load_hit"
    /\ futures[ev.n].st = "ok"
    /\ queue # <<>>

\* ---------------------------------------------------------------- threads
\* A step of the worker thread: one of the steps of ResourceSystem::run
OnWorker ==
    \/ WorkerRecvLoad
    \/ \E gone \in SUBSET Evictable : WorkerRecvUnload(gone)
    \/ WorkerRecvStop
    \/ WorkerLookup
    \/ WorkerRead
    \/ WorkerParse
    \/ WorkerInsert
    \/ \E ok \in BOOLEAN : WorkerExtern(ok)

\* what a step does to the contents of the arenas, and to the filesystems
Inserts == \E t \in Types, k \in Keys : arenas'[t].res[k] \notin {0, arenas[t].res[k]}
Evicts == \E t \in Types, k \in Keys : arenas[t].res[k] # 0 /\ arenas'[t].res[k] = 0
EvictionPass == ev'.op \in {"advance", "evict"}
ReadsFile == fsReads' # fsReads
ProbesFile == ev'.op = "exists"

\* C11 (single-writer threading), as claimed: every filesystem access (read or
\* probe), every insert into an arena and every eviction pass is a step of the
\* worker thread, advance() and exists() included.
C11_OnlyWorkerTouches ==
    [][ReadsFile \/ ProbesFile \/ Inserts \/ Evicts \/ EvictionPass => OnWorker]_vars

\* C11, amended: every file read, every parse and every insert into an arena is a
\* step of the worker thread; an eviction pass is a step of the worker (its
\* UnloadUnused task) or of the thread that calls advance(); exists() probes the
\* filesystem on the thread that calls it; no other step of a caller reads a file
\* or changes what an arena holds.
C11_WorkerReadsAndInserts ==
    [][ /\ ReadsFile \/ parsed' # parsed \/ Inserts => OnWorker
        /\ Evicts \/ EvictionPass => OnWorker \/ ev'.op = "advance"
        /\ ev'.op \in {"advance", "exists"} => ~OnWorker
      ]_vars

\* advance() on the caller's thread has just evicted an instance that the worker
\* had read, parsed and inserted
C11_Witness ==
    /\ ev.op = "advance"
    /\ \E r \in Reqs :
        /\ r \in fsReads /\ r \in parsed
        /\ futures[r].st = "ok"
        /\ ~Cached(req[r].ty, HashOf(req[r].path))

\* ------------------------------------------------------------ the channel
\* chan.recv() can return: the worker is waiting and a task is queued
CanReceive ==
    ENABLED (WorkerRecvLoad \/ WorkerRecvStop
             \/ \E gone \in SUBSET Evictable : WorkerRecvUnload(gone))

\* C12 (backpressure): the queue never holds more than QueueCap tasks; while it
\* is full no send goes through (unload_unused and the teardown's Stop wait) and
\* the worker can take a task; a send is held up by nothing but a full queue, so
\* it goes through once a slot is free; the queue holds exactly the tasks sent
\* and not yet received, oldest first, so none is dropped; and the worker stops
\* with an empty queue, so no send finds the channel closed.
C12_Backpressure ==
    /\ Len(queue) <= QueueCap
    /\ Len(queue) = QueueCap => CanReceive
    /\ alive /\ unloads < MaxQueued =>
            (ENABLED SharedUnloadUnused <=> Len(queue) < QueueCap)
    /\ alive => (ENABLED DropShared <=> Len(queue) < QueueCap)
    /\ Len(queue) = nextSeq - 1 - lastDeq
    /\ queue # <<>> => queue[1].seq = lastDeq + 1 /\ queue[Len(queue)].seq = nextSeq - 1
    /\ wpc = "stopped" => queue = <<>> /\ ~alive

\* the queue is full again after the worker freed a slot of the full queue, and
\* the teardown's Stop has still to be sent
C12_Witness ==
    /\ Len(queue) = QueueCap
    /\ lastDeq > 0
    /\ alive
    /\ unloads = MaxQueued

\* C13 (NotRegistered): the worker, starting ResourceSystem::load for a request
\* whose type has no arena at that moment, ends the base stage with NotRegistered
\* in that very step, with the in-flight set, the buffer and every arena
\* unchanged; such a request is resolved with NotRegistered and is never read nor
\* parsed; and a request whose type is registered when the worker starts it,
\* whatever it was when the request was sent, does not end with NotRegistered.
C13_NotRegistered ==
    /\ [](\A r \in Reqs :
            base[r] = Err("NotRegistered")
                => /\ futures[r] = Err("NotRegistered")
                   /\ r \notin fsReads
                   /\ r \notin parsed)
    /\ [][wpc = "lookup" /\ wpc' # "lookup" =>
            IF ~arenas[req[cur].ty].reg
            THEN /\ base'[cur] = Err("NotRegistered")
                 /\ futures'[cur] = Err("NotRegistered")
                 /\ locks' = locks /\ buf' = buf /\ arenas' = arenas
                 /\ fsReads' = fsReads /\ parsed' = parsed
            ELSE base'[cur] # Err("NotRegistered")
         ]_vars
    /\ [][\A r \in Reqs : base'[r] = Err("NotRegistered") /\ base[r] # base'[r]
            => wpc = "lookup" /\ cur = r /\ ~arenas[req[r].ty].reg]_vars

\* a load refused with NotRegistered, and the next load sent, of the same type,
\* read, parsed and resolved with an instance: the type was registered in between
C13_Witness ==
    \E r, q \in Reqs :
        /\ futures[r] = Err("NotRegistered")
        /\ req[q].ty = req[r].ty
        /\ req[q].seq = req[r].seq + 1
        /\ q \in fsReads /\ q \in parsed
        /\ futures[q].st = "ok"
        /\ locks = {}

\* C14 (advance): an advance() call invokes unload_unused on every registered
\* arena and on every registered extern system, in the one step of the call, and
\* changes nothing but what the arenas' eviction releases: no arena or system is
\* added or removed, no entry appears or changes, only entries that nothing uses
\* go; no task is sent, the in-flight set, the buffer, the mounted filesystems,
\* the futures and the worker's position are untouched.
C14_AdvanceEvictsAll ==
    [][ev'.op = "advance" =>
        /\ ev'.arenas = Registered
        /\ ev'.externs = RegisteredExterns
        /\ \A t \in Types :
            /\ arenas'[t].reg = arenas[t].reg
            /\ arenas'[t].cap = arenas[t].cap
            /\ \A k \in Keys :
                \/ arenas'[t].res[k] = arenas[t].res[k]
                \/ arenas'[t].res[k] = 0 /\ <<t, k>> \in Evictable
        /\ externs' = externs
        /\ queue' = queue /\ nextSeq' = nextSeq
        /\ locks' = locks /\ buf' = buf
        /\ filesystems' = filesystems
        /\ futures' = futures /\ payload' = payload
        /\ wpc' = wpc /\ cur' = cur
      ]_vars

\* advance() with every type and every system registered, a task waiting in the
\* queue and a filesystem mounted, has just released a loaded instance
C14_Witness ==
    /\ ev.op = "advance"
    /\ ev.arenas = Types
    /\ ev.externs = Systems
    /\ queue # <<>>
    /\ filesystems # {}
    /\ \E r \in Reqs : futures[r].st = "ok" /\ ~Cached(req[r].ty, HashOf(req[r].path))

\* ------------------------------------------------------------ ecs claims
\* the component instances attached to the entity slot i
Attached(i) == {world.comp[c][i] : c \in Comps} \ {0}

C16_DuplicatedAdd ==
    [][ /\ world'.call.op = "add" /\ world' # world =>
            LET e == world'.call.e
                c == world'.call.c
            IN  /\ world'.call.ret = Get(c, e)
                /\ (world'.call.ret = 0) <=> ~Has(c, e)
                /\ GetIn(world', c, e) = world'.call.val
                /\ GetIn(world', c, e) # Get(c, e)
                /\ \A d \in Comps, f \in Handles :
                    <<d, f>> # <<c, e>> => GetIn(world', d, f) = Get(d, f)
        /\ \A c \in Comps, e \in Handles :
            GetIn(world', c, e) # Get(c, e) =>
                /\ world'.call.op \in {"add", "remove", "free"}
                /\ world'.call.e = e
      ]_vars

\* a second add on an entity that holds a component of that type returned it
C16_Witness ==
    /\ world.call.op = "add"
    /\ world.call.ret # 0
    /\ Get(world.call.c, world.call.e) = world.call.val
    /\ world.call.val # world.call.ret

\* C17 (in-flight invariant), as claimed: when the worker starts
\* ResourceSystem::load for a path whose key is in the in-flight set, for any
\* type, the base stage ends in that step with CircularReferenceFound and no file
\* is read; in particular it does not end with success.
C17_InFlightLookupFails ==
    [][wpc = "lookup" /\ wpc' # "lookup" /\ HashOf(req[cur].path) \in locks =>
            /\ base'[cur] = Err("CircularReferenceFound")
            /\ fsReads' = fsReads
      ]_vars

\* C17, last clause alone, as claimed: no base stage started for a path whose key
\* is in the in-flight set ends with success.
C17_InFlightLookupNeverSucceeds ==
    [][wpc = "lookup" /\ wpc' # "lookup" /\ HashOf(req[cur].path) \in locks =>
            base'[cur].st # "ok"
      ]_vars

\* C18 (nothing cached on failure): the step in which a base stage ends with an
\* error changes no arena, and the worker changes an arena only at the insert of a
\* base stage that ends with success or in an eviction task; so an arena holds an
\* entry for a key only if a load of that type and path was parsed with success,
\* the entry is the instance that load made (instances are never made twice, so it
\* was not evicted since) and, for a load call, the instance its future holds.
C18_NothingCachedOnFailure ==
    /\ [](\A t \in Types, k \in Keys :
            arenas[t].res[k] # 0 =>
                \E r \in parsed :
                    /\ req[r].ty = t
                    /\ HashOf(req[r].path) = k
                    /\ base[r] = Ok(arenas[t].res[k])
                    /\ req[r].kind = "load" => futures[r] = base[r])
    /\ [][ /\ \A r \in Reqs : base'[r].st = "err" /\ base'[r] # base[r] => arenas' = arenas
           /\ arenas' # arenas /\ OnWorker =>
                \/ ev'.op = "evict"
                \/ wpc = "insert" /\ base'[cur].st = "ok" /\ Inserts
         ]_vars

\* a load whose parse failed and one whose parse succeeded: only the second one's
\* instance is in the arena
C18_Witness ==
    \E r, q \in Reqs :
        /\ base[r] = Err("ParseFailure")
        /\ base[q].st = "ok" /\ q \in parsed
        /\ CacheGet(req[q].ty, HashOf(req[q].path)) = base[q].val
        /\ ~Cached(req[r].ty, HashOf(req[r].path))

\* C19 (one-shot task guard): the body of a task closure starts only for a request
\* that still holds its payload, takes the payload, and a payload once taken never
\* comes back, so the body starts at most once per request, on a request that no
\* stage has touched; its future is sent to at most once; and a call of a closure
\* whose payload is gone changes no arena, no extern system, neither the
\* in-flight set nor the buffer, no future, and starts nothing.
C19_OneShotGuard ==
    /\ [](\A r \in Reqs : nres[r] <= 1)
    /\ [][ /\ wpc # "lookup" /\ wpc' = "lookup" =>
                /\ cur' \in payload /\ cur' \notin payload'
                /\ base[cur'].st = "none" /\ nres[cur'] = 0
                /\ cur' \notin fsReads \cup parsed
           /\ \A r \in Reqs : req[r].kind # "none" /\ r \notin payload => r \notin payload'
           /\ ev'.op = "call_again" =>
                /\ ev'.n \notin payload
                /\ arenas' = arenas /\ externs' = externs
                /\ locks' = locks /\ buf' = buf
                /\ futures' = futures /\ nres' = nres /\ base' = base
                /\ fsReads' = fsReads /\ parsed' = parsed /\ externCalls' = externCalls
                /\ wpc' = wpc /\ cur' = cur
         ]_vars

\* the closure of an extern load that was resolved with success has been called
\* again, after a load was resolved too
C19_Witness ==
    /\ ev.op = "call_again"
    /\ req[ev.n].kind = "extern"
    /\ futures[ev.n].st = "ok"
    /\ \E q \in Reqs : req[q].kind = "load" /\ Resolved(q) /\ q \in parsed

\* the positions of the Stop tasks in the queue
StopsQueued == {i \in 1..Len(queue) : queue[i].kind = "Stop"}

\* C20 (Stopped is terminal): Stop is sent once, by the drop of the handle, as
\* the last task of the queue, and the drop leaves the worker where it is; a task
\* the worker is running can always go on, also after the drop, and when the
\* worker has stopped every request sent has been resolved, once; the worker has
\* stopped exactly when the handle is gone and Stop is no longer queued; and once
\* stopped it stays stopped: no arena, extern system or future changes any more.
C20_StoppedIsTerminal ==
    /\ [](/\ Cardinality(StopsQueued) <= 1
          /\ StopsQueued \subseteq {Len(queue)}
          /\ ~alive <=> (StopsQueued # {} \/ wpc = "stopped")
          /\ wpc = "stopped" =>
                /\ StopsQueued = {} /\ queue = <<>> /\ cur = 0
                /\ \A r \in Reqs : req[r].kind # "none" => Resolved(r) /\ nres[r] = 1
          /\ wpc \notin {"recv", "stopped"} => ENABLED OnWorker)
    /\ [][ /\ alive /\ ~alive' =>
                /\ queue' = Append(queue, [kind |-> "Stop", req |-> 0, seq |-> nextSeq])
                /\ wpc' = wpc /\ cur' = cur
                /\ arenas' = arenas /\ externs' = externs /\ futures' = futures
           /\ ~alive => ~alive'
           /\ wpc = "stopped" =>
                /\ wpc' = "stopped"
                /\ arenas' = arenas /\ externs' = externs /\ futures' = futures
         ]_vars

\* the worker has stopped after the handle was dropped with work to do: a load
\* read, parsed and resolved, and another request resolved with an error
C20_Witness ==
    /\ wpc = "stopped"
    /\ \E r, q \in Reqs :
        /\ r \in parsed /\ futures[r].st = "ok"
        /\ futures[q].st = "err"

\* ------------------------------------------------------------ the teardown
\* the requests whose task is still in the queue
QueuedReqs == {queue[i].req : i \in 1..Len(queue)} \ {0}

\* C21 (abandonment on teardown), as claimed: a task that is still queued, not yet
\* received by the worker, once the handle has been torn down is never executed,
\* and its future stays unresolved.
C21_QueuedTasksAbandoned ==
    [][\A r \in Reqs :
        ~alive /\ r \in QueuedReqs =>
            /\ r \in payload'
            /\ futures'[r] = Pending
            /\ ~(wpc' = "lookup" /\ cur' = r)
      ]_vars

\* C21, amended: Stop does not overtake the tasks queued at the teardown. Once the
\* handle is gone every task not yet executed is in the queue, ahead of Stop, with
\* its payload and a pending future; it leaves the queue only by being received,
\* in order, by the worker, which starts its closure in that step; and the worker
\* receives Stop only when it is the one task left, every closure has run and
\* every future is resolved.
C21_QueuedTasksRunBeforeStop ==
    /\ [](~alive =>
            /\ \A r \in payload :
                /\ futures[r] = Pending
                /\ \E i \in 1..(Len(queue) - 1) :
                    queue[i].req = r /\ queue[Len(queue)].kind = "Stop"
            /\ \A r \in Reqs : futures[r] = Pending /\ r \notin payload => cur = r)
    /\ [][\A r \in Reqs :
            ~alive /\ r \in QueuedReqs /\ r \notin QueuedReqs' =>
                /\ Received.req = r
                /\ queue' = Remaining
                /\ r \in payload /\ r \notin payload'
                /\ wpc = "recv" /\ wpc' = "lookup" /\ cur' = r
         ]_vars
    /\ [][wpc # "stopped" /\ wpc' = "stopped" =>
            /\ queue = <<[kind |-> "Stop", req |-> 0, seq |-> nextSeq - 1]>>
            /\ payload = {}
            /\ \A r \in Reqs : req[r].kind # "none" => Resolved(r) /\ nres[r] = 1
         ]_vars

\* the handle is gone while the worker is busy with one request and another one,
\* its closure not yet called, waits in the queue ahead of Stop
C21_Witness ==
    /\ ~alive
    /\ Len(queue) = 2
    /\ queue[1].kind \in {"Load", "ExternLoad"}
    /\ queue[1].req \in payload
    /\ queue[2].kind = "Stop"
    /\ wpc \in {"read", "parse", "insert", "extern"}

\* ------------------------------------------------------------ the read buffer
\* &buf[from..]: what T::parse is given
ParserInput == SubSeq(buf, from + 1, Len(buf))

\* C22 (parser input slice): the read buffer is shared by all tasks and only grows;
\* from is the buffer's length when the read starts, so when the parser is called
\* the slice it is given is exactly the bytes of the file this load has just read,
\* whatever earlier loads (parsed with success or not) left in the buffer, and the
\* parse succeeds or fails as it does on those bytes alone.
C22_ParserInputSlice ==
    /\ [](/\ wpc = "read" => from = Len(buf)
          /\ wpc = "parse" =>
                /\ from <= Len(buf)
                /\ ParserInput = FileBytes(req[cur].path))
    /\ [][ /\ Len(buf) <= Len(buf') /\ SubSeq(buf', 1, Len(buf)) = buf
           /\ buf' # buf => wpc = "read" /\ buf' = buf \o FileBytes(req[cur].path)
           /\ parsed' # parsed =>
                /\ wpc = "parse" /\ parsed' = parsed \cup {cur}
                /\ IF ParseOk(FileBytes(req[cur].path))
                   THEN wpc' = "insert" /\ base'[cur] = base[cur]
                   ELSE base'[cur] = Err("ParseFailure")
         ]_vars

\* a well-formed file parsed with success from a buffer that still holds the bytes
\* of a malformed file, read by an earlier load whose parse failed
C22_Witness ==
    /\ buf = FileBytes("b") \o FileBytes("a")
    /\ \E r, q \in parsed :
        /\ base[q] = Err("ParseFailure")
        /\ req[r].path = "a"
        /\ base[r].st = "ok"

\* --------------------------------------------------- duplicate requests
\* SpecDup: requests piled up before the worker starts: both types registered
\* once, the filesystem mounted, at most MaxTypeLoads load calls, all of them
\* made on a registered type and a mounted filesystem before the worker has
\* received its first task; no eviction pass.
NextDup ==
    \/ \E t \in Types : ~arenas[t].reg /\ Register(t, 1)
    \/ \E i \in FsIds : Mount(i)
    \/ \E t \in Types, p \in Paths :
         /\ alive /\ arenas[t].reg /\ filesystems # {}
         /\ lastDeq = 0
         /\ NumReqs < MaxTypeLoads
         /\ SharedLoad(NumReqs + 1, t, p, 0)
    \/ WorkerRecvLoad
    \/ WorkerLookup
    \/ WorkerRead
    \/ WorkerParse
    \/ WorkerInsert

SpecDup == Init /\ [][NextDup]_vars

\* requests for the same type and path
SameKey(r, q) ==
    /\ req[r].kind = "load" /\ req[q].kind = "load"
    /\ req[r].ty = req[q].ty
    /\ req[r].path = req[q].path

\* the first request sent for its type and path
FirstOfKey(r) ==
    /\ req[r].kind = "load"
    /\ \A x \in Reqs : SameKey(r, x) => req[r].seq <= req[x].seq

LiveCanSend == NumReqs + unloads < MaxLiveSends

NextLive ==
    \/ ~arenas["T1"].reg /\ Register("T1", 1)
    \/ externs["S1"] = 0 /\ RegisterExternSystem("S1", 1)
    \/ \E i \in FsIds : Mount(i)
    \/ \E p \in Paths : LiveCanSend /\ Load("T1", p)
    \/ LiveCanSend /\ NestedLoad
    \/ \E p \in Paths, o \in Opts : LiveCanSend /\ LoadExtern("T1", "S1", p, o)
    \/ LiveCanSend /\ SharedUnloadUnused
    \/ DropShared
    \/ WorkerRecvLoad
    \/ \E gone \in SUBSET Evictable : WorkerRecvUnload(gone)
    \/ WorkerRecvStop
    \/ WorkerLookup
    \/ WorkerRead
    \/ WorkerParse
    \/ WorkerInsert
    \/ \E ok \in BOOLEAN : WorkerExtern(ok)

SpecLive == Init /\ [][NextLive]_vars /\ WF_vars(OnWorker)

\* the tasks one behaviour of SpecLive can send (the calls, and Stop), and the
\* requests it can make
Seqs == 1..(MaxLiveSends + 1)
LiveReqs == 1..MaxLiveSends

\* C24 (eventual resolution): under a fair worker every task sent is eventually
\* received, the closure of every request sent to the worker is eventually run
\* and its future resolved, and so is every future handed out by load or
\* load_extern; a task still queued when the handle is dropped is run and
\* resolved before the worker stops, which it eventually does.
C24_EventualResolution ==
    /\ \A n \in Seqs : (nextSeq > n) ~> (lastDeq >= n)
    /\ \A r \in LiveReqs : (futures[r] = Pending) ~> (Resolved(r) /\ r \notin payload)
    /\ \A r \in LiveReqs : (~alive /\ r \in QueuedReqs) ~> (wpc = "stopped" /\ Resolved(r))

\* the handle is gone and only Stop is left in the queue: every task sent before
\* it has been received and run, a load_extern and a load among them, and every
\* future is resolved
C24_Witness ==
    /\ ~alive
    /\ wpc = "recv"
    /\ Len(queue) = 1 /\ queue[1].kind = "Stop"
    /\ lastDeq = MaxLiveSends
    /\ payload = {}
    /\ \A r \in LiveReqs : Resolved(r)
    /\ \E r, q \in Reqs : req[r].kind = "extern" /\ req[q].kind = "load" /\ req[q].seq # 0

\* ------------------------------------------------------------ waiting
\* SpecNested: a parser that calls load on the worker thread while the callers
\* fill the channel: one type, the filesystem mounted, at most MaxRegLoads client
\* loads, the parser's nested load, and unload_unused() calls, up to QueueCap in
\* all, made while the parser runs; the parser acts (calls load, returns) before
\* the first of these calls or once the channel is full.
ParserActs == unloads = 0 \/ Len(queue) = QueueCap

NextNested ==
    \/ ~arenas["T1"].reg /\ Register("T1", 1)
    \/ \E i \in FsIds : Mount(i)
    \/ \E p \in Paths : NumReqs < MaxRegLoads /\ Load("T1", p)
    \/ ParserActs /\ NestedLoad
    \/ wpc = "parse" /\ unloads < QueueCap /\ SharedUnloadUnused
    \/ WorkerRecvLoad
    \/ \E gone \in SUBSET Evictable : WorkerRecvUnload(gone)
    \/ WorkerLookup
    \/ WorkerRead
    \/ ParserActs /\ WorkerParse
    \/ WorkerInsert

SpecNested == Init /\ [][NextNested]_vars

\* T::parse is running and can call load::<T> through a handle it holds
ParserCanCallLoad == wpc = "parse" /\ alive /\ NumReqs < MaxReqs

\* C25 (deadlock freedom), as claimed: the worker never waits for a caller nor for
\* the queue. A task it has started can always take its next step, whatever the
\* callers do (no caller keeps a lock the worker needs); with a task queued and
\* the worker idle, the receive can happen; and a load called by a parser, on the
\* worker thread, goes through without waiting for queue space.
C25_WorkerNeverWaits ==
    /\ wpc \notin {"recv", "stopped"} => ENABLED OnWorker
    /\ wpc = "recv" /\ queue # <<>> => CanReceive
    /\ ParserCanCallLoad => ENABLED NestedLoad

\* ------------------------------------------------------------ extern failure
\* r is a load_extern whose base stage succeeded, whose S stage failed, and whose
\* base instance is still in the arena (no eviction has released it)
ExternFailedBaseKept(r) ==
    /\ req[r].kind = "extern"
    /\ base[r].st = "ok"
    /\ futures[r].st = "err"
    /\ CacheGet(req[r].ty, HashOf(req[r].path)) = base[r].val

\* C26 (extern stage failure keeps the base): when the S stage of a load_extern
\* ends with an error, after a base stage that succeeded, the error is
\* NotRegistered if S is not registered and S's own failure otherwise, it is what
\* the future holds, and the step changes no arena: the base instance stays in
\* T's cache. As long as no eviction releases it, a load::<T> call for the path is
\* answered at once with that instance and sends nothing, and a base stage run by
\* the worker for the path ends with it, with no read and no parse; so every
\* request for the path sent to the worker after this one, whose base stage has
\* ended, got that instance without a read or a parse of its own.
C26_ExternFailureKeepsBase ==
    /\ [][wpc = "extern" /\ wpc' # "extern" =>
            /\ base[cur].st = "ok" /\ base[cur].val = rc
            /\ CacheGet(req[cur].ty, HashOf(req[cur].path)) = rc
            /\ arenas' = arenas /\ base' = base
            /\ externs[req[cur].sys] = 0 => futures'[cur] = Err("NotRegistered")
            /\ futures'[cur].st = "err" =>
                /\ futures'[cur] \in {Err("NotRegistered"), Err("ExternFailure")}
                /\ futures'[cur] = Err("NotRegistered") <=> externs[req[cur].sys] = 0
                /\ nres'[cur] = 1
         ]_vars
    /\ [][\A r \in Reqs : ExternFailedBaseKept(r) =>
            /\ \A q \in Reqs :
                /\ req[q].kind = "none" /\ req'[q].kind = "load"
                /\ req'[q].ty = req[r].ty /\ req'[q].path = req[r].path
                => /\ futures'[q] = base[r]
                   /\ queue' = queue /\ req'[q].seq = 0
            /\ /\ wpc = "lookup" /\ wpc' # "lookup"
               /\ req[cur].ty = req[r].ty /\ req[cur].path = req[r].path
               => /\ base'[cur] = base[r]
                  /\ fsReads' = fsReads /\ parsed' = parsed /\ buf' = buf
         ]_vars
    /\ [](\A r, q \in Reqs :
            /\ ExternFailedBaseKept(r) /\ r \in parsed
            /\ req[q].ty = req[r].ty /\ req[q].path = req[r].path
            /\ req[q].seq > req[r].seq
            /\ base[q].st # "none"
            => /\ q \notin fsReads /\ q \notin parsed
               /\ base[q] = base[r])

\* a load_extern refused by an unregistered S after it was read and parsed, and a
\* later load_extern for the same path, S now registered, transformed from the
\* very same base instance without a read of its own
C26_Witness ==
    \E r, q \in Reqs :
        /\ ExternFailedBaseKept(r)
        /\ futures[r] = Err("NotRegistered")
        /\ r \in parsed
        /\ req[q].kind = "extern" /\ req[q].path = req[r].path
        /\ futures[q].st = "ok"
        /\ futures[q].val.src = base[r].val
        /\ q \notin fsReads

\* ------------------------------------------------------------ the audio clip loader
\* pub const MAGIC: [u8; 8] = [b'C', b'S', b'F', b'X', b' ', 0, 0, 1]
MAGIC == <<67, 83, 70, 88, 32, 0, 0, 1>>

\* the sequences over S of length up to n
SeqsUpTo(S, n) == UNION {[1..m -> S] : m \in 0..n}

\* the inputs tried: every proper prefix of MAGIC and other short sequences, and
\* MAGIC, or MAGIC with one byte changed, followed by up to MaxStream bytes
ShortInputs == {SubSeq(MAGIC, 1, n) : n \in 0..(Len(MAGIC) - 1)} \cup SeqsUpTo({0, 67}, MaxStream)
Headers == {[MAGIC EXCEPT ![i] = b] : i \in 1..Len(MAGIC), b \in {0, 1, 67}}
ClipInputs == ShortInputs \cup {h \o t : h \in Headers, t \in SeqsUpTo({0, 1}, MaxStream)}

\* the thread panics; the function returns Err; the function returns Ok(clip)
Panic(why) == [st |-> "panic", why |-> why]
ClipOk(pcm) == [st |-> "ok", pcm |-> pcm]

\* AudioClipLoader::load(handle, bytes). What the Ogg decoder makes of the bytes
\* after the header is an input: header says that OggStreamReader::new accepts
\* them (it never accepts none), stream that every read_dec_packet_itl succeeds.
AudioClipLoaderLoad(bytes, header, stream) ==
    IF Len(bytes) < Len(MAGIC)
    THEN Panic("slice index out of range")
    ELSE IF SubSeq(bytes, 1, Len(MAGIC)) # MAGIC
    THEN Err("MAGIC number not match")
    ELSE IF ~(header /\ Len(bytes) > Len(MAGIC))
    THEN Panic("unwrap on Err")
    ELSE IF ~stream
    THEN Err("VorbisError")
    ELSE ClipOk(SubSeq(bytes, Len(MAGIC) + 1, Len(bytes)))

\* a call of AudioClipLoader::load
ClipLoad(bytes, header, stream) ==
    /\ clip' = [bytes |-> bytes, header |-> header, stream |-> stream,
                out |-> AudioClipLoaderLoad(bytes, header, stream)]
    /\ UNCHANGED <<resVars, world>>

\* SpecClip: AudioClipLoader::load applied to each of the inputs, with each
\* verdict of the Ogg decoder.
NextClip ==
    \E bytes \in ClipInputs, header, stream \in BOOLEAN : ClipLoad(bytes, header, stream)

SpecClip == Init /\ [][NextClip]_vars

\* C27 (audio clip header check), as claimed: AudioClipLoader::load never ends in
\* an uncontrolled fault; it returns an error, and no clip, for every input that
\* is shorter than MAGIC or does not start with MAGIC; and for an input whose Ogg
\* header or stream is malformed.
C27_HeaderCheck ==
    clip.out.st # "none" =>
        /\ clip.out.st \in {"ok", "err"}
        /\ Len(clip.bytes) < Len(MAGIC) \/ SubSeq(clip.bytes, 1, Len(MAGIC)) # MAGIC
            => clip.out.st = "err"
        /\ ~(clip.header /\ clip.stream) => clip.out.st = "err"

====
